---------------------------- MODULE Spec2Model ----------------------------
(***************************************************************************)
(* A model of parqeye's navigation state (src/src/app.rs), the SQL tab     *)
(* (src/src/tabs/sql.rs), the SQL runner (src/src/file/sql.rs) and the     *)
(* scroll helper of the renderer (src/src/ui.rs).                          *)
(*                                                                         *)
(* The specifications share the variables:                                 *)
(*   Spec          the session loop: App::run reading key events and       *)
(*                 App::handle_key_event handling them;                    *)
(*   SpecScroll    the viewport synchronizer applied to drawn inputs;      *)
(*   SpecPage      AppState's navigation, scroll and page operations;      *)
(*   SpecSql       run_sql applied to drawn query texts;                   *)
(*   SpecDetail    the row-detail overlay rendered over drawn result sets; *)
(*   SpecNormalize dataframe_to_sample_data applied to drawn frames;       *)
(*   SpecSample    page_down applied again and again from AppState::new.   *)
(***************************************************************************)
EXTENDS Integers, Sequences, FiniteSets, TLC

VARIABLES
    \* AppState (app.rs:50-68)
    horizontal_offset, vertical_offset, tree_scroll_offset,
    data_vertical_scroll, visible_data_rows,
    search_mode, search_query, search_filter, filtered_sample_data,
    sql_query, sql_result,
    row_detail_row, detail_scroll_offset, detail_scroll_horizontal,
    \* App (app.rs:42-48)
    exit, active_tab,
    panicked,       \* an arithmetic-overflow panic ended the process
    \* the last operation applied (its name, arguments, pre-state, results)
    call

offsets    == <<horizontal_offset, vertical_offset, tree_scroll_offset,
                data_vertical_scroll>>
searchVars == <<search_mode, search_query>>
filterVars == <<search_filter, filtered_sample_data>>
sqlVars    == <<sql_query, sql_result>>
detailVars == <<row_detail_row, detail_scroll_offset, detail_scroll_horizontal>>
vars == <<offsets, visible_data_rows, searchVars, filterVars, sqlVars,
          detailVars, exit, active_tab, panicked, call>>

(***************************************************************************)
(* Bounds of the model.                                                    *)
(***************************************************************************)
MaxText    == 1    \* longest search buffer / query text typed in Spec
MaxDetail  == 1    \* detail scroll explored in Spec: this many lines and
                   \* columns in all, from the origin or one page below it
MaxSel     == 9    \* largest selection / scroll drawn in SpecScroll
MaxWin     == 5    \* largest window size drawn in SpecScroll
MaxTotal   == 12   \* largest item count drawn in SpecScroll
MaxPageSel == 5    \* cap of down() in SpecPage
MaxPageWin == 3    \* largest visible_rows passed in SpecPage
MaxPageTot == 5    \* largest max_rows passed in SpecPage
MaxPageScroll == 5 \* largest scroll passed to set_data_vertical_scroll in SpecPage
MaxTreeScroll == 1 \* largest tree_scroll_offset reached in SpecPage
MaxSqlText == 3    \* longest query text drawn in SpecSql
MaxDetailRow == 3  \* largest overlay row index drawn in SpecDetail
MaxFrameCols == 2  \* most columns of a frame drawn in SpecNormalize
MaxFrameHeight == 2 \* most rows of a frame drawn in SpecNormalize
SamplePage == 10   \* the page of the large sample in SpecSample
SampleRows == 100  \* the rows of the large sample in SpecSample

(***************************************************************************)
(* Option<T>, usize helpers.                                               *)
(***************************************************************************)
None == [tag |-> "None"]
Some(v) == [tag |-> "Some", val |-> v]
is_some(o) == o.tag = "Some"

saturating_sub(a, b) == IF a >= b THEN a - b ELSE 0
min(a, b) == IF a <= b THEN a ELSE b
max(a, b) == IF a >= b THEN a ELSE b


(***************************************************************************)
(* The program state as one record: App with its AppState flattened in.    *)
(* The operations below are functions from such a record to the set of     *)
(* records the operation can leave (a set because the query engine's       *)
(* answer and the build's overflow behaviour are not the program's choice).*)
(***************************************************************************)
st == [horizontal_offset |-> horizontal_offset,
       vertical_offset |-> vertical_offset,
       tree_scroll_offset |-> tree_scroll_offset,
       data_vertical_scroll |-> data_vertical_scroll,
       visible_data_rows |-> visible_data_rows,
       search_mode |-> search_mode,
       search_query |-> search_query,
       search_filter |-> search_filter,
       filtered_sample_data |-> filtered_sample_data,
       sql_query |-> sql_query,
       sql_result |-> sql_result,
       row_detail_row |-> row_detail_row,
       detail_scroll_offset |-> detail_scroll_offset,
       detail_scroll_horizontal |-> detail_scroll_horizontal,
       exit |-> exit,
       active_tab |-> active_tab,
       panicked |-> panicked]

Install(t) ==
    /\ horizontal_offset' = t.horizontal_offset
    /\ vertical_offset' = t.vertical_offset
    /\ tree_scroll_offset' = t.tree_scroll_offset
    /\ data_vertical_scroll' = t.data_vertical_scroll
    /\ visible_data_rows' = t.visible_data_rows
    /\ search_mode' = t.search_mode
    /\ search_query' = t.search_query
    /\ search_filter' = t.search_filter
    /\ filtered_sample_data' = t.filtered_sample_data
    /\ sql_query' = t.sql_query
    /\ sql_result' = t.sql_result
    /\ row_detail_row' = t.row_detail_row
    /\ detail_scroll_offset' = t.detail_scroll_offset
    /\ detail_scroll_horizontal' = t.detail_scroll_horizontal
    /\ exit' = t.exit
    /\ active_tab' = t.active_tab
    /\ panicked' = t.panicked

(***************************************************************************)
(* AppState::new (app.rs:77-94) and App::new (app.rs:192-208).             *)
(***************************************************************************)
AppStateNew ==
    /\ horizontal_offset = 0
    /\ vertical_offset = 0
    /\ tree_scroll_offset = 0
    /\ data_vertical_scroll = 0
    /\ visible_data_rows = 20
    /\ search_mode = FALSE
    /\ search_query = <<>>
    /\ search_filter = None
    /\ filtered_sample_data = None
    /\ sql_query = <<>>
    /\ sql_result = None
    /\ row_detail_row = None
    /\ detail_scroll_offset = 0
    /\ detail_scroll_horizontal = 0

AppNew ==
    /\ AppStateNew
    /\ exit = FALSE
    /\ active_tab = 1
    /\ panicked = FALSE

(***************************************************************************)
(* AppState's scroll primitives (app.rs:96-142).                           *)
(***************************************************************************)
\* a variant that zeroes the selection and leaves the two scroll offsets
reset_selection_only(s) ==
    [s EXCEPT !.horizontal_offset = 0, !.vertical_offset = 0]

reset(s) ==
    [s EXCEPT !.horizontal_offset = 0,
              !.vertical_offset = 0,
              !.tree_scroll_offset = 0,
              !.data_vertical_scroll = 0]

\* a variant that forgets the filtered rows
clear_search_filter_text_only(s) ==
    [s EXCEPT !.search_filter = None]

\* a variant that empties the search buffer as well
clear_search_filter_and_buffer(s) ==
    [s EXCEPT !.search_filter = None, !.filtered_sample_data = None,
              !.search_query = <<>>]

clear_search_filter(s) ==
    [s EXCEPT !.search_filter = None, !.filtered_sample_data = None]

down(s)  == [s EXCEPT !.vertical_offset = @ + 1]
up(s)    == [s EXCEPT !.vertical_offset = saturating_sub(@, 1)]
right(s) == [s EXCEPT !.horizontal_offset = @ + 1]
left(s)  == [s EXCEPT !.horizontal_offset = saturating_sub(@, 1)]

(* AppState::tree_scroll_up, tree_scroll_down, set_data_vertical_scroll    *)
(* (app.rs:136-150).                                                       *)
tree_scroll_up(s)   == [s EXCEPT !.tree_scroll_offset = saturating_sub(@, 1)]
tree_scroll_down(s) == [s EXCEPT !.tree_scroll_offset = @ + 1]
set_data_vertical_scroll(s, scroll) == [s EXCEPT !.data_vertical_scroll = scroll]

(***************************************************************************)
(* x.saturating_sub(visible - 1) on usize: the set of results.  For        *)
(* visible = 0 the inner subtraction overflows: a build with overflow      *)
(* checks panics ("panic"), a build without them wraps to usize::MAX, and  *)
(* x.saturating_sub(usize::MAX) = 0 for every x.                           *)
(***************************************************************************)
Done(v) == [panic |-> FALSE, val |-> v]
Panic   == [panic |-> TRUE, val |-> 0]

\* a variant that subtracts the whole window
sub_window(x, visible) ==
    {Done(saturating_sub(x, visible))}

sub_window_minus_one(x, visible) ==
    IF visible >= 1 THEN {Done(saturating_sub(x, visible - 1))}
    ELSE {Panic, Done(0)}

(***************************************************************************)
(* AppState::adjust_scroll_to_selection (app.rs:175-188).                  *)
(***************************************************************************)
\* a variant of adjust_scroll_to_selection without the final clamp to
\* max_rows - visible_rows.
adjust_scroll_unclamped(s, visible_rows, max_rows) ==
    LET moved == IF s.vertical_offset < s.data_vertical_scroll
                 THEN {Done(s.vertical_offset)}
                 ELSE IF s.vertical_offset >= s.data_vertical_scroll + visible_rows
                      THEN sub_window_minus_one(s.vertical_offset, visible_rows)
                      ELSE {Done(s.data_vertical_scroll)}
    IN  {IF o.panic THEN [s EXCEPT !.panicked = TRUE]
         ELSE [s EXCEPT !.data_vertical_scroll = o.val]
           : o \in moved}

adjust_scroll_to_selection(s, visible_rows, max_rows) ==
    LET moved == IF s.vertical_offset < s.data_vertical_scroll
                 THEN {Done(s.vertical_offset)}
                 ELSE IF s.vertical_offset >= s.data_vertical_scroll + visible_rows
                      THEN sub_window_minus_one(s.vertical_offset, visible_rows)
                      ELSE {Done(s.data_vertical_scroll)}
        max_scroll == saturating_sub(max_rows, visible_rows)
    IN  {IF o.panic THEN [s EXCEPT !.panicked = TRUE]
         ELSE [s EXCEPT !.data_vertical_scroll = min(o.val, max_scroll)]
           : o \in moved}

(***************************************************************************)
(* AppState::page_up / page_down (app.rs:160-173).                         *)
(***************************************************************************)
\* a variant of page_up that moves the selection and leaves the scroll
page_up_unsynchronized(s, visible_rows, max_rows) ==
    {[s EXCEPT !.vertical_offset = saturating_sub(@, visible_rows)]}

page_up(s, visible_rows, max_rows) ==
    adjust_scroll_to_selection(
        [s EXCEPT !.vertical_offset = saturating_sub(@, visible_rows)],
        visible_rows, max_rows)

\* a variant of page_down that advances without the clamp to max_rows - 1
page_down_unclamped(s, visible_rows, max_rows) ==
    adjust_scroll_to_selection(
        [s EXCEPT !.vertical_offset = @ + visible_rows],
        visible_rows, max_rows)

\* a variant of page_down that clamps the selection to the first row of the
\* last page, max_rows - visible_rows
page_down_to_last_page(s, visible_rows, max_rows) ==
    adjust_scroll_to_selection(
        [s EXCEPT !.vertical_offset =
                     min(@ + visible_rows, saturating_sub(max_rows, visible_rows))],
        visible_rows, max_rows)

page_down(s, visible_rows, max_rows) ==
    adjust_scroll_to_selection(
        [s EXCEPT !.vertical_offset =
                     min(@ + visible_rows, saturating_sub(max_rows, 1))],
        visible_rows, max_rows)

(***************************************************************************)
(* AppWidget::calculate_scroll_to_show_item (ui.rs:51-70): the set of      *)
(* results, Done(scroll) or Panic.                                         *)
(***************************************************************************)
calculate_scroll_to_show_item(selected_tree_idx, current_scroll, visible_items) ==
    IF is_some(selected_tree_idx)
    THEN LET idx == selected_tree_idx.val
         IN  IF idx < current_scroll THEN {Done(idx)}
             ELSE IF idx >= current_scroll + visible_items
                  THEN sub_window_minus_one(idx, visible_items)
                  ELSE {Done(current_scroll)}
    ELSE {Done(current_scroll)}

(***************************************************************************)
(* Text is a sequence of one-character strings.                            *)
(***************************************************************************)
Chars == {"x", "v", "/"}

to_lowercase_char(c) ==
    CASE c = "X" -> "x"
      [] c = "V" -> "v"
      [] OTHER   -> c

to_lowercase(t) == [i \in 1..Len(t) |-> to_lowercase_char(t[i])]

(***************************************************************************)
(* char::is_whitespace: the characters with the Unicode property           *)
(* White_Space.  A character that cannot be written in a string here is    *)
(* named by its code point.                                                *)
(***************************************************************************)
White_Space ==
    {"\t", "\n", "U+000B", "\f", "\r", " ", "U+0085", "U+00A0", "U+1680",
     "U+2000", "U+2001", "U+2002", "U+2003", "U+2004", "U+2005", "U+2006",
     "U+2007", "U+2008", "U+2009", "U+200A", "U+2028", "U+2029", "U+202F",
     "U+205F", "U+3000"}

is_whitespace(c) == c \in White_Space

RECURSIVE trim_start(_)
trim_start(t) ==
    IF t # <<>> /\ is_whitespace(Head(t)) THEN trim_start(Tail(t)) ELSE t

RECURSIVE trim_end(_)
trim_end(t) ==
    IF t # <<>> /\ is_whitespace(t[Len(t)])
    THEN trim_end(SubSeq(t, 1, Len(t) - 1)) ELSE t

trim(t) == trim_end(trim_start(t))

pop(t) == IF t = <<>> THEN t ELSE SubSeq(t, 1, Len(t) - 1)

contains(t, pat) ==
    \E i \in 0..(Len(t) - Len(pat)) : SubSeq(t, i + 1, i + Len(pat)) = pat

RECURSIVE concat(_)
concat(cells) == IF cells = <<>> THEN <<>> ELSE Head(cells) \o concat(Tail(cells))

(***************************************************************************)
(* ParquetSampleData and the file's sample set.                            *)
(***************************************************************************)
SampleData(cols, rows) ==
    [flattened_columns |-> cols, total_columns |-> Len(cols),
     total_rows |-> Len(rows), rows |-> rows]

sample_data ==
    SampleData(<<"id", "tag">>,
               << <<<<"X">>, <<"v">>>>,
                  <<<<"v">>, <<"/">>>>,
                  <<<<"x">>, <<"x">>>> >>)

(* The file opened and the terminal it is shown in. *)
schema_column_size == 1
num_row_groups == 2
terminal_size == [width |-> 80, height |-> 9]

filter_rows(data, query) ==
    LET keep == SelectSeq(data.rows,
                          LAMBDA r : contains(to_lowercase(concat(r)),
                                              to_lowercase(query)))
    IN  SampleData(data.flattened_columns, keep)


(***************************************************************************)
(* The query engine (polars) and run_sql.  The engine is a collaborator:   *)
(* each of its three stages may fail with a message, or it delivers a      *)
(* DataFrame.  A DataFrame is its column names, its height, and one        *)
(* sequence of values per column; a value is null or an integer.           *)
(***************************************************************************)
Null    == [null |-> TRUE, int |-> 0]
Int32(n) == [null |-> FALSE, int |-> n]

df_empty == [names |-> <<"n">>, height |-> 0, columns |-> << <<>> >>]
df_two   == [names |-> <<"n", "m">>, height |-> 2,
             columns |-> << <<Int32(12), Null>>, <<Null, Int32(7)>> >>]
DataFrames == {df_empty, df_two}

EngineFails(stage, err) == [stage |-> stage, err |-> err, df |-> df_empty]
EngineDelivers(df) == [stage |-> "ok", err |-> "", df |-> df]
\* the answers a property is stated for
EngineAnswers ==
    {EngineFails("scan", "No such file or directory"),
     EngineFails("execute", "sql parser error"),
     EngineFails("collect", "compute error")}
    \cup {EngineDelivers(d) : d \in DataFrames}
\* the engine is asked nothing: any answer stands for none
NoAnswer == EngineFails("none", "")
\* the answers given while exploring the session
ExploredAnswers == {EngineFails("execute", "sql parser error"), EngineDelivers(df_two)}

Digit(d) == CASE d = 0 -> "0" [] d = 1 -> "1" [] d = 2 -> "2" [] d = 3 -> "3"
              [] d = 4 -> "4" [] d = 5 -> "5" [] d = 6 -> "6" [] d = 7 -> "7"
              [] d = 8 -> "8" [] d = 9 -> "9"

RECURSIVE format_int(_)
format_int(n) ==
    IF n < 10 THEN <<Digit(n)>> ELSE format_int(n \div 10) \o <<Digit(n % 10)>>

\* a variant that shows a null as an empty cell
get_value_as_string_blank_null(col, row_idx) ==
    IF row_idx + 1 \in DOMAIN col
    THEN IF col[row_idx + 1].null THEN <<>>
         ELSE format_int(col[row_idx + 1].int)
    ELSE <<"N", "U", "L", "L">>

get_value_as_string(col, row_idx) ==
    IF row_idx + 1 \in DOMAIN col
    THEN IF col[row_idx + 1].null THEN <<"N", "U", "L", "L">>
         ELSE format_int(col[row_idx + 1].int)
    ELSE <<"N", "U", "L", "L">>

dataframe_to_sample_data(df) ==
    LET flattened_columns == df.names
        rows == [r \in 1..df.height |->
                   [c \in 1..Len(df.columns) |->
                      get_value_as_string(df.columns[c], r - 1)]]
    IN  [flattened_columns |-> flattened_columns,
         total_columns |-> Len(flattened_columns),
         total_rows |-> df.height,
         rows |-> rows]

SqlOk(data) == [tag |-> "Ok", data |-> data, msg |-> ""]
SqlErr(msg) == [tag |-> "Err", data |-> SampleData(<<>>, <<>>), msg |-> msg]

(* a variant of run_sql that tests the text without trimming it *)
run_sql_untrimmed(path, query, engine) ==
    IF query = <<>>
    THEN [result |-> SqlErr("Empty query"), calls |-> 0]
    ELSE CASE engine.stage = "ok" ->
                [result |-> SqlOk(dataframe_to_sample_data(engine.df)),
                 calls |-> 3]
           [] OTHER ->
                [result |-> SqlErr(engine.err),
                 calls |-> IF engine.stage = "scan" THEN 1
                           ELSE IF engine.stage = "execute" THEN 2 ELSE 3]

(* a variant of run_sql that reports every failure by one fixed message *)
run_sql_fixed_message(path, query, engine) ==
    IF trim(query) = <<>>
    THEN [result |-> SqlErr("Empty query"), calls |-> 0]
    ELSE CASE engine.stage = "ok" ->
                [result |-> SqlOk(dataframe_to_sample_data(engine.df)),
                 calls |-> 3]
           [] OTHER ->
                [result |-> SqlErr("Query failed"),
                 calls |-> IF engine.stage = "scan" THEN 1
                           ELSE IF engine.stage = "execute" THEN 2 ELSE 3]

(* run_sql, given the answer `engine` the query engine has for this call:  *)
(* [result, calls], calls counting the engine's stages that ran            *)
(* (scan_parquet, execute, collect).                                       *)
run_sql(path, query, engine) ==
    IF trim(query) = <<>>
    THEN [result |-> SqlErr("Empty query"), calls |-> 0]
    ELSE CASE engine.stage = "scan" ->
                [result |-> SqlErr(engine.err), calls |-> 1]
           [] engine.stage = "execute" ->
                [result |-> SqlErr(engine.err), calls |-> 2]
           [] engine.stage = "collect" ->
                [result |-> SqlErr(engine.err), calls |-> 3]
           [] OTHER ->
                [result |-> SqlOk(dataframe_to_sample_data(engine.df)),
                 calls |-> 3]

file_path == "sample.parquet"


(***************************************************************************)
(* Key events.  A key is its code, the character of a Char code, and       *)
(* whether CONTROL is among its modifiers.  NoKey stands for an event that *)
(* is not a key press.                                                     *)
(***************************************************************************)
Key(code)         == [code |-> code, ch |-> "", ctrl |-> FALSE]
CharKey(c, ctrl)  == [code |-> "Char", ch |-> c, ctrl |-> ctrl]
NoKey             == Key("None")
KeyCodes == {"Esc", "Enter", "Backspace", "Tab", "BackTab", "Up", "Down",
             "Left", "Right", "PageUp", "PageDown"}
\* the keys pressed while exploring
KeyEvents == {Key(c) : c \in KeyCodes}
             \cup {CharKey(c, FALSE) : c \in Chars}
             \cup {CharKey("x", TRUE)}
\* the keys a property is stated for
AllChars == Chars \cup {"X", "V", "a", " "}
AllKeys == {Key(c) : c \in KeyCodes \cup {"Home", "F1"}}
           \cup {CharKey(c, b) : c \in AllChars, b \in BOOLEAN}

is_ctrl_x(k) == k.code = "Char" /\ k.ch \in {"x", "X"} /\ k.ctrl

(***************************************************************************)
(* TabManager: the fixed ordered list of tabs and the active one.          *)
(***************************************************************************)
TabNames == <<"Metadata", "Schema", "Row Groups", "Visualize", "SQL">>
active_tab_to_string(s) == TabNames[s.active_tab]
tabs_next(s) == [s EXCEPT !.active_tab = (@ % Len(TabNames)) + 1]
tabs_prev(s) == [s EXCEPT !.active_tab = ((@ + Len(TabNames) - 2) % Len(TabNames)) + 1]

(***************************************************************************)
(* Tab::on_event of the five tabs.  The SQL tab is tabs/sql.rs; the other  *)
(* four follow the specification's description of the views.               *)
(***************************************************************************)
open_row_detail(s) ==
    [s EXCEPT !.row_detail_row = Some(s.vertical_offset),
              !.detail_scroll_offset = 0,
              !.detail_scroll_horizontal = 0]

\* a variant whose row-detail key does not look at the query outcome
SqlTab_on_event_any_outcome(s, k) ==
    CASE k.code = "Backspace" -> {[s EXCEPT !.sql_query = pop(@)]}
      [] k.code = "Char" /\ k.ch \in {"v", "V"} -> {open_row_detail(s)}
      [] k.code = "Char" /\ k.ch \notin {"v", "V"} ->
           {[s EXCEPT !.sql_query = Append(@, k.ch)]}
      [] OTHER -> {s}

\* a variant of the Query view's handler whose Down key moves the selection
SqlTab_on_event_navigating(s, k) ==
    CASE k.code = "Backspace" -> {[s EXCEPT !.sql_query = pop(@)]}
      [] k.code = "Down" -> {down(s)}
      [] k.code = "Char" /\ k.ch \in {"v", "V"} ->
           IF is_some(s.sql_result) /\ s.sql_result.val.tag = "Ok"
           THEN {open_row_detail(s)}
           ELSE {s}
      [] k.code = "Char" /\ k.ch \notin {"v", "V"} ->
           {[s EXCEPT !.sql_query = Append(@, k.ch)]}
      [] OTHER -> {s}

SqlTab_on_event(s, k) ==
    CASE k.code = "Backspace" -> {[s EXCEPT !.sql_query = pop(@)]}
      [] k.code = "Char" /\ k.ch \in {"v", "V"} ->
           IF is_some(s.sql_result) /\ s.sql_result.val.tag = "Ok"
           THEN {open_row_detail(s)}
           ELSE {s}
      [] k.code = "Char" /\ k.ch \notin {"v", "V"} ->
           {[s EXCEPT !.sql_query = Append(@, k.ch)]}
      [] OTHER -> {s}

MetadataTab_on_event(s, k) == {s}

SchemaTab_on_event(s, k) ==
    CASE k.code = "Up"   -> {up(s)}
      [] k.code = "Down" -> IF s.vertical_offset < schema_column_size THEN {down(s)} ELSE {s}
      [] OTHER -> {s}

RowGroupsTab_on_event(s, k) ==
    CASE k.code = "Up"    -> {up(s)}
      [] k.code = "Down"  -> IF s.vertical_offset < schema_column_size THEN {down(s)} ELSE {s}
      [] k.code = "Left"  -> {left(s)}
      [] k.code = "Right" -> IF s.horizontal_offset + 1 < num_row_groups
                             THEN {right(s)} ELSE {s}
      [] OTHER -> {s}

VisualizeTab_on_event(s, k) ==
    LET max_rows == sample_data.total_rows
    IN  CASE k.code = "Up"    -> {up(s)}
          [] k.code = "Down"  -> IF s.vertical_offset + 1 < max_rows
                                 THEN {down(s)} ELSE {s}
          [] k.code = "Left"  -> {left(s)}
          [] k.code = "Right" -> IF s.horizontal_offset + 1 < sample_data.total_columns
                                 THEN {right(s)} ELSE {s}
          [] k.code = "PageUp"   -> page_up(s, s.visible_data_rows, max_rows)
          [] k.code = "PageDown" -> page_down(s, s.visible_data_rows, max_rows)
          [] k.code = "Char" /\ k.ch \in {"v", "V"} -> {open_row_detail(s)}
          [] OTHER -> {s}

Tab_on_event(s, k) ==
    CASE active_tab_to_string(s) = "Metadata"   -> MetadataTab_on_event(s, k)
      [] active_tab_to_string(s) = "Schema"     -> SchemaTab_on_event(s, k)
      [] active_tab_to_string(s) = "Row Groups" -> RowGroupsTab_on_event(s, k)
      [] active_tab_to_string(s) = "Visualize"  -> VisualizeTab_on_event(s, k)
      [] active_tab_to_string(s) = "SQL"        -> SqlTab_on_event(s, k)

(***************************************************************************)
(* handle_key_event, row detail overlay open (app.rs:237-274).             *)
(***************************************************************************)
DETAIL_PAGE_SIZE == 10

\* a variant whose PageUp moves by one line
row_detail_key_page_by_one(s, k) ==
    CASE k.code = "Esc"      -> [s EXCEPT !.row_detail_row = None]
      [] k.code = "Up"       -> [s EXCEPT !.detail_scroll_offset = saturating_sub(@, 1)]
      [] k.code = "Down"     -> [s EXCEPT !.detail_scroll_offset = @ + 1]
      [] k.code = "PageUp"   -> [s EXCEPT !.detail_scroll_offset = saturating_sub(@, 1)]
      [] k.code = "PageDown" ->
           [s EXCEPT !.detail_scroll_offset = @ + DETAIL_PAGE_SIZE]
      [] k.code = "Left"     ->
           [s EXCEPT !.detail_scroll_horizontal = saturating_sub(@, 1)]
      [] k.code = "Right"    -> [s EXCEPT !.detail_scroll_horizontal = @ + 1]
      [] is_ctrl_x(k)        -> [s EXCEPT !.exit = TRUE]
      [] OTHER               -> s

row_detail_key(s, k) ==
    CASE k.code = "Esc"      -> [s EXCEPT !.row_detail_row = None]
      [] k.code = "Up"       -> [s EXCEPT !.detail_scroll_offset = saturating_sub(@, 1)]
      [] k.code = "Down"     -> [s EXCEPT !.detail_scroll_offset = @ + 1]
      [] k.code = "PageUp"   ->
           [s EXCEPT !.detail_scroll_offset = saturating_sub(@, DETAIL_PAGE_SIZE)]
      [] k.code = "PageDown" ->
           [s EXCEPT !.detail_scroll_offset = @ + DETAIL_PAGE_SIZE]
      [] k.code = "Left"     ->
           [s EXCEPT !.detail_scroll_horizontal = saturating_sub(@, 1)]
      [] k.code = "Right"    -> [s EXCEPT !.detail_scroll_horizontal = @ + 1]
      [] is_ctrl_x(k)        -> [s EXCEPT !.exit = TRUE]
      [] OTHER               -> s

(***************************************************************************)
(* handle_key_event, search mode (app.rs:277-300).                         *)
(***************************************************************************)
\* a variant that filters the rows already filtered
search_commit_refilter(s) ==
    LET query == s.search_query
        shown == IF is_some(s.filtered_sample_data)
                 THEN s.filtered_sample_data.val ELSE sample_data
        filtered == filter_rows(shown, query)
        s1 == [s EXCEPT !.search_filter = Some(query),
                        !.filtered_sample_data = Some(filtered)]
    IN  [reset(s1) EXCEPT !.search_mode = FALSE]

search_commit(s) ==
    LET query == s.search_query
        filtered == filter_rows(sample_data, query)
        s1 == [s EXCEPT !.search_filter = Some(query),
                        !.filtered_sample_data = Some(filtered)]
    IN  [reset(s1) EXCEPT !.search_mode = FALSE]

\* a variant whose search entry lets the arrow keys move the selection
search_key_navigating(s, k) ==
    CASE k.code = "Esc"       -> [s EXCEPT !.search_mode = FALSE, !.search_query = <<>>]
      [] k.code = "Enter"     -> search_commit(s)
      [] k.code = "Backspace" -> [s EXCEPT !.search_query = pop(@)]
      [] k.code = "Char"      -> [s EXCEPT !.search_query = Append(@, k.ch)]
      [] k.code = "Up"        -> up(s)
      [] k.code = "Down"      -> down(s)
      [] OTHER                -> s

\* a variant whose Esc empties the search buffer and stays in search entry
search_key_esc_clears_buffer(s, k) ==
    CASE k.code = "Esc"       -> [s EXCEPT !.search_query = <<>>]
      [] k.code = "Enter"     -> search_commit(s)
      [] k.code = "Backspace" -> [s EXCEPT !.search_query = pop(@)]
      [] k.code = "Char"      -> [s EXCEPT !.search_query = Append(@, k.ch)]
      [] OTHER                -> s

search_key(s, k) ==
    CASE k.code = "Esc"       -> [s EXCEPT !.search_mode = FALSE, !.search_query = <<>>]
      [] k.code = "Enter"     -> search_commit(s)
      [] k.code = "Backspace" -> [s EXCEPT !.search_query = pop(@)]
      [] k.code = "Char"      -> [s EXCEPT !.search_query = Append(@, k.ch)]
      [] OTHER                -> s

(***************************************************************************)
(* handle_key_event, no overlay (app.rs:302-341): the match arms in order. *)
(***************************************************************************)
\* a variant that looks at the active view before the filter
normal_esc_view_first(s) ==
    IF active_tab_to_string(s) = "SQL"
    THEN [s EXCEPT !.sql_query = <<>>, !.sql_result = None]
    ELSE IF is_some(s.search_filter)
    THEN reset(clear_search_filter(s))
    ELSE reset(s)

normal_esc(s) ==
    IF is_some(s.search_filter)
    THEN reset(clear_search_filter(s))
    ELSE IF active_tab_to_string(s) = "SQL"
    THEN [s EXCEPT !.sql_query = <<>>, !.sql_result = None]
    ELSE reset(s)

start_search(s) == [s EXCEPT !.search_mode = TRUE, !.search_query = <<>>]

\* a variant that ends the session when the query fails
run_query_quit_on_error(s, engine) ==
    LET result == run_sql(file_path, s.sql_query, engine).result
    IN  [s EXCEPT !.sql_result = Some(result),
                  !.exit = (result.tag = "Err")]

run_query(s, engine) ==
    [s EXCEPT !.sql_result = Some(run_sql(file_path, s.sql_query, engine).result)]

normal_key(s, k, engine) ==
    CASE is_ctrl_x(k) -> {[s EXCEPT !.exit = TRUE]}
      [] ~is_ctrl_x(k) /\ k.code = "Esc" -> {normal_esc(s)}
      [] ~is_ctrl_x(k) /\ k.code = "Char" /\ k.ch = "/" -> {start_search(s)}
      [] k.code = "Enter" /\ active_tab_to_string(s) = "SQL" -> {run_query(s, engine)}
      [] k.code = "Tab" -> {reset(tabs_next(s))}
      [] k.code = "BackTab" -> {reset(tabs_prev(s))}
      [] OTHER -> Tab_on_event(s, k)

\* a variant whose overlay returns early only for the keys it binds
handle_key_event_fallthrough(s, k, engine) ==
    IF is_some(s.row_detail_row)
       /\ (k.code \in {"Esc", "Up", "Down", "PageUp", "PageDown", "Left", "Right"}
           \/ is_ctrl_x(k))
    THEN {row_detail_key(s, k)}
    ELSE IF s.search_mode THEN {search_key(s, k)}
    ELSE normal_key(s, k, engine)

handle_key_event(s, k, engine) ==
    IF is_some(s.row_detail_row) THEN {row_detail_key(s, k)}
    ELSE IF s.search_mode THEN {search_key(s, k)}
    ELSE normal_key(s, k, engine)

(***************************************************************************)
(* handle_events (app.rs:225-233) and one iteration of App::run            *)
(* (app.rs:211-221): the visible rows are recomputed from the terminal     *)
(* height, then one event is read and handled.                             *)
(***************************************************************************)
handle_events(s, ev, engine) ==
    IF ev.code # "None" THEN handle_key_event(s, ev, engine) ELSE {s}

HEADER_LINES == 7

run_iteration(s, ev, engine) ==
    LET visible == max(saturating_sub(terminal_size.height, HEADER_LINES), 1)
    IN  handle_events([s EXCEPT !.visible_data_rows = visible], ev, engine)

(* Only the commit key can reach the engine (app.rs:323-326). *)
AnswersTo(k, answers) == IF k.code = "Enter" THEN answers ELSE {NoAnswer}

(***************************************************************************)
(* Spec: the session.  Growth of the typed texts and of the detail scroll  *)
(* offsets is cut at the bounds.                                           *)
(***************************************************************************)
WithinBounds(t) ==
    /\ Len(t.search_query) <= MaxText
    /\ Len(t.sql_query) <= MaxText
    /\ t.detail_scroll_offset <= DETAIL_PAGE_SIZE + MaxDetail
    /\ (t.detail_scroll_offset % DETAIL_PAGE_SIZE) + t.detail_scroll_horizontal
         <= MaxDetail

(***************************************************************************)
(* AppWidget::render_row_detail_view (ui.rs:360-429), up to the lines and  *)
(* the title it hands to the paragraph: rows.get(row_idx) is the row or    *)
(* None, never a fault.                                                    *)
(***************************************************************************)
\* a variant of rows.get that counts rows from 1
rows_get_from_one(rows, row_idx) ==
    IF row_idx \in DOMAIN rows THEN Some(rows[row_idx]) ELSE None

rows_get(rows, row_idx) ==
    IF row_idx + 1 \in DOMAIN rows THEN Some(rows[row_idx + 1]) ELSE None

row_detail_lines(columns, row) ==
    [i \in 1..min(Len(columns), Len(row)) |-> <<columns[i], ": ", row[i]>>]

Message(text) == [lines |-> <<text>>, title |-> "Row detail", row_number |-> 0]

render_row_detail_view(s) ==
    LET row_idx == s.row_detail_row.val
    IN  CASE active_tab_to_string(s) = "Visualize" ->
               LET data == IF is_some(s.filtered_sample_data)
                           THEN s.filtered_sample_data.val ELSE sample_data
                   got == rows_get(data.rows, row_idx)
               IN  IF is_some(got)
                   THEN [lines |-> row_detail_lines(data.flattened_columns, got.val),
                         title |-> "Row (Visualize)", row_number |-> row_idx + 1]
                   ELSE Message("Row out of range")
          [] active_tab_to_string(s) = "SQL" ->
               IF is_some(s.sql_result) /\ s.sql_result.val.tag = "Ok"
               THEN LET data == s.sql_result.val.data
                        got == rows_get(data.rows, row_idx)
                    IN  IF is_some(got)
                        THEN [lines |-> row_detail_lines(data.flattened_columns, got.val),
                              title |-> "Row (SQL result)", row_number |-> row_idx + 1]
                        ELSE Message("Row out of range")
               ELSE Message("No result data")
          [] OTHER -> Message("No data")

NoPrev == [op |-> "none", same_args |-> FALSE, sel |-> 0]
NoCall == [op |-> "none", visible |-> 0, total |-> 0, has_sel |-> FALSE,
           sel |-> 0, scroll |-> 0, result |-> 0, calls |-> 0, prev |-> NoPrev,
           shown |-> [lines |-> <<>>, title |-> "", row_number |-> 0],
           df |-> df_empty, run |-> 0]

Init ==
    /\ AppNew
    /\ call = NoCall

KeyPress ==
    /\ ~exit /\ ~panicked
    /\ \E k \in KeyEvents : \E e \in AnswersTo(k, ExploredAnswers) :
          \E t \in run_iteration(st, k, e) : WithinBounds(t) /\ Install(t)
    /\ UNCHANGED call

OtherEvent ==
    /\ ~exit /\ ~panicked
    /\ \E t \in run_iteration(st, NoKey, NoAnswer) : Install(t)
    /\ UNCHANGED call

Next == KeyPress \/ OtherEvent

Spec == Init /\ [][Next]_vars

(***************************************************************************)
(* SpecScroll: the viewport synchronizer on drawn inputs.  Init draws the  *)
(* selection and the current scroll (of the row table and of the tree);    *)
(* one step applies adjust_scroll_to_selection with a drawn (visible_rows, *)
(* max_rows), or calculate_scroll_to_show_item with a drawn visible_items  *)
(* and the selection or no selection.  call keeps the arguments and, for   *)
(* the tree, the result (the renderer does not store it).                  *)
(***************************************************************************)
InitScroll ==
    /\ exit = FALSE
    /\ active_tab = 1
    /\ panicked = FALSE
    /\ horizontal_offset = 0
    /\ vertical_offset \in 0..MaxSel
    /\ data_vertical_scroll \in 0..MaxSel
    /\ tree_scroll_offset = data_vertical_scroll
    /\ visible_data_rows = 20
    /\ search_mode = FALSE
    /\ search_query = <<>>
    /\ search_filter = None
    /\ filtered_sample_data = None
    /\ sql_query = <<>>
    /\ sql_result = None
    /\ row_detail_row = None
    /\ detail_scroll_offset = 0
    /\ detail_scroll_horizontal = 0
    /\ call = NoCall

ApplyAdjust ==
    /\ call = NoCall
    /\ \E visible \in 0..MaxWin, total \in 0..MaxTotal :
         \E t \in adjust_scroll_to_selection(st, visible, total) :
            /\ Install(t)
            /\ call' = [NoCall EXCEPT !.op = "adjust_scroll_to_selection",
                                      !.visible = visible,
                                      !.total = total,
                                      !.has_sel = TRUE,
                                      !.sel = vertical_offset,
                                      !.scroll = data_vertical_scroll,
                                      !.result = t.data_vertical_scroll]

ApplyShowItem ==
    /\ call = NoCall
    /\ \E visible \in 0..MaxWin, selected \in {None, Some(vertical_offset)} :
         \E o \in calculate_scroll_to_show_item(selected, tree_scroll_offset, visible) :
            /\ Install([st EXCEPT !.panicked = o.panic])
            /\ call' = [NoCall EXCEPT !.op = "calculate_scroll_to_show_item",
                                      !.visible = visible,
                                      !.has_sel = is_some(selected),
                                      !.sel = vertical_offset,
                                      !.scroll = tree_scroll_offset,
                                      !.result = o.val]

NextScroll == ApplyAdjust \/ ApplyShowItem

SpecScroll == InitScroll /\ [][NextScroll]_vars

(***************************************************************************)
(* SpecPage: AppState's down, up, page_up, page_down, tree_scroll_up,       *)
(* tree_scroll_down and set_data_vertical_scroll applied in any order from *)
(* AppState::new, the page operations with drawn (visible_rows, max_rows)  *)
(* and the setter with a drawn scroll.  call keeps the last operation, its arguments and the        *)
(* selection and scroll it started from; call.prev says what the operation *)
(* before it was, whether it had the same arguments and, for a page_down   *)
(* with the same arguments, the selection it started from.                 *)
(***************************************************************************)
PrevOf(op, visible, total) ==
    LET same == call.visible = visible /\ call.total = total
    IN  [op |-> call.op, same_args |-> same,
         sel |-> IF call.op = "page_down" /\ same THEN call.sel ELSE 0]

CallOf(op, visible, total) ==
    [NoCall EXCEPT !.op = op, !.visible = visible, !.total = total,
                   !.has_sel = TRUE, !.sel = vertical_offset,
                   !.scroll = data_vertical_scroll,
                   !.prev = PrevOf(op, visible, total)]

DoDown ==
    /\ ~panicked
    /\ vertical_offset < MaxPageSel
    /\ Install(down(st))
    /\ call' = CallOf("down", 0, 0)

DoUp ==
    /\ ~panicked
    /\ Install(up(st))
    /\ call' = CallOf("up", 0, 0)

DoPageUp ==
    /\ ~panicked
    /\ \E visible \in 0..MaxPageWin, total \in 0..MaxPageTot :
         \E t \in page_up(st, visible, total) :
            /\ Install(t)
            /\ call' = CallOf("page_up", visible, total)

DoPageDown ==
    /\ ~panicked
    /\ \E visible \in 0..MaxPageWin, total \in 0..MaxPageTot :
         \E t \in page_down(st, visible, total) :
            /\ Install(t)
            /\ call' = CallOf("page_down", visible, total)

DoTreeScrollUp ==
    /\ ~panicked
    /\ Install(tree_scroll_up(st))
    /\ call' = CallOf("tree_scroll_up", 0, 0)

DoTreeScrollDown ==
    /\ ~panicked
    /\ tree_scroll_offset < MaxTreeScroll
    /\ Install(tree_scroll_down(st))
    /\ call' = CallOf("tree_scroll_down", 0, 0)

DoSetDataVerticalScroll ==
    /\ ~panicked
    /\ \E scroll \in 0..MaxPageScroll :
         /\ Install(set_data_vertical_scroll(st, scroll))
         /\ call' = CallOf("set_data_vertical_scroll", 0, 0)

NextPage ==
    \/ DoDown \/ DoUp \/ DoPageUp \/ DoPageDown
    \/ DoTreeScrollUp \/ DoTreeScrollDown \/ DoSetDataVerticalScroll

SpecPage == Init /\ [][NextPage]_vars

(***************************************************************************)
(* SpecSql: the SQL tab's commit key on drawn query texts.  Init is the    *)
(* session on the SQL tab with a typed query text; a step handles Enter    *)
(* with one of the engine's answers, call keeping how many engine stages   *)
(* run_sql ran.                                                            *)
(***************************************************************************)
SqlChars == {" ", "\t", "\r", "U+00A0", "a"}

RECURSIVE TextsUpTo(_, _)
TextsUpTo(chars, n) ==
    IF n = 0 THEN {<<>>}
    ELSE LET shorter == TextsUpTo(chars, n - 1)
         IN  shorter \cup {Append(t, c) : t \in shorter, c \in chars}

InitSql ==
    /\ horizontal_offset = 0
    /\ vertical_offset = 0
    /\ tree_scroll_offset = 0
    /\ data_vertical_scroll = 0
    /\ visible_data_rows = max(saturating_sub(terminal_size.height, HEADER_LINES), 1)
    /\ search_mode = FALSE
    /\ search_query = <<>>
    /\ search_filter = None
    /\ filtered_sample_data = None
    /\ sql_query \in TextsUpTo(SqlChars, MaxSqlText)
    /\ sql_result = None
    /\ row_detail_row = None
    /\ detail_scroll_offset = 0
    /\ detail_scroll_horizontal = 0
    /\ exit = FALSE
    /\ active_tab = 5
    /\ panicked = FALSE
    /\ call = NoCall

CommitQuery ==
    /\ ~exit /\ ~panicked
    /\ \E e \in EngineAnswers :
         /\ \E t \in run_iteration(st, Key("Enter"), e) : Install(t)
         /\ call' = [NoCall EXCEPT !.op = "run_sql",
                                   !.calls = run_sql(file_path, sql_query, e).calls]

NextSql == CommitQuery

SpecSql == InitSql /\ [][NextSql]_vars


(***************************************************************************)
(* Properties.  A property of one key event is stated at the state the     *)
(* event arrives in: for every key of AllKeys and every engine answer, of  *)
(* every outcome of handle_key_event on st.                                *)
(***************************************************************************)
Handling == ~exit /\ ~panicked
InNormal == ~search_mode /\ ~is_some(row_detail_row)
InSearchEntry == search_mode /\ ~is_some(row_detail_row)
InRowDetail == is_some(row_detail_row)

\* C1: in every reachable state at most one of search_mode and
\* row_detail_row.is_some() is true.
C1_ModalExclusive ==
    ~(search_mode /\ is_some(row_detail_row))

\* search entry was entered after the row-detail overlay had been open and
\* scrolled, and the overlay is closed
C1_Witness ==
    /\ search_mode
    /\ ~is_some(row_detail_row)
    /\ detail_scroll_offset > 0

\* C2: in every reachable state search_filter.is_some() equals
\* filtered_sample_data.is_some().
C2_FilterTogether ==
    is_some(search_filter) <=> is_some(filtered_sample_data)

\* a filter has been committed and holds back some of the sample's rows
C2_Witness ==
    /\ is_some(search_filter)
    /\ is_some(filtered_sample_data)
    /\ filtered_sample_data.val.total_rows < sample_data.total_rows

\* C3: from every modal state a Ctrl+X key event sets the exit flag and is
\* not consumed by the overlay: it leaves the search buffer as it was.
C3_CtrlXFirst ==
    Handling =>
        \A k \in AllKeys : is_ctrl_x(k) =>
            \A e \in AnswersTo(k, EngineAnswers) :
                \A t \in handle_key_event(st, k, e) :
                    t.exit /\ t.search_query = search_query

\* C4: with visible > 0 and selection < total, adjust_scroll_to_selection
\* leaves scroll <= selection < scroll + visible; with visible > 0 and a
\* selected tree item, so does calculate_scroll_to_show_item; a tree with
\* 5 visible, scroll 0 and selection 9 gives scroll 5.
C4_SelectionInWindow ==
    /\ (/\ call.op = "adjust_scroll_to_selection"
        /\ call.visible > 0
        /\ call.sel < call.total)
       => /\ ~panicked
          /\ call.result = data_vertical_scroll
          /\ call.result <= call.sel
          /\ call.sel < call.result + call.visible
    /\ (/\ call.op = "calculate_scroll_to_show_item"
        /\ call.visible > 0
        /\ call.has_sel)
       => /\ ~panicked
          /\ call.result <= call.sel
          /\ call.sel < call.result + call.visible
          /\ (call.sel = 9 /\ call.scroll = 0 /\ call.visible = 5)
             => call.result = 5

\* the tree of the example: 5 visible, scroll 0, selection 9, new scroll 5
C4_Witness ==
    /\ call.op = "calculate_scroll_to_show_item"
    /\ call.has_sel
    /\ call.sel = 9
    /\ call.scroll = 0
    /\ call.visible = 5
    /\ call.result = 5

\* C5: for every selection, scroll, visible and total,
\* adjust_scroll_to_selection produces a scroll in
\* [0, max(0, total - visible)]; total = 0 gives 0 and visible >= total
\* gives 0.
C5_ScrollInRange ==
    call.op = "adjust_scroll_to_selection" =>
        /\ ~panicked
        /\ data_vertical_scroll >= 0
        /\ data_vertical_scroll <= max(0, call.total - call.visible)
        /\ call.total = 0 => data_vertical_scroll = 0
        /\ call.visible >= call.total => data_vertical_scroll = 0

\* C6: for every (visible, max) with vertical_offset + visible <= max - 1,
\* page_down(visible, max) followed by page_up(visible, max) restores the
\* original vertical_offset.
C6_PageRoundTrip ==
    /\ (/\ call.op = "page_down"
        /\ call.sel + call.visible <= call.total - 1)
       => ~panicked
    /\ (/\ call.op = "page_up"
        /\ call.prev.op = "page_down"
        /\ call.prev.same_args
        /\ call.prev.sel + call.visible <= call.total - 1)
       => /\ ~panicked
          /\ vertical_offset = call.prev.sel

\* C7: a query text that is empty or whitespace-only yields
\* Err("Empty query") and the engine is never invoked for that request.
C7_EmptyQueryRejected ==
    (/\ call.op = "run_sql"
     /\ \A i \in 1..Len(sql_query) : is_whitespace(sql_query[i]))
    => /\ sql_result = Some(SqlErr("Empty query"))
       /\ call.calls = 0

\* a whitespace-only text of more than one character, with a carriage return
\* and a no-break space in it, has been run
C7_Witness ==
    /\ call.op = "run_sql"
    /\ Len(sql_query) >= 2
    /\ \E i \in 1..Len(sql_query) : sql_query[i] = "\r"
    /\ \E i \in 1..Len(sql_query) : sql_query[i] = "U+00A0"
    /\ \A i \in 1..Len(sql_query) : is_whitespace(sql_query[i])
    /\ sql_result = Some(SqlErr("Empty query"))

\* C8: Enter in SearchEntry with buffer q gives search_filter = Some(q),
\* filtered_sample_data = the filter's result for q on the base sample set,
\* the four base offsets 0, and mode Normal.
C8_SearchCommit ==
    (Handling /\ InSearchEntry) =>
        LET after == handle_key_event(st, Key("Enter"), NoAnswer)
        IN  /\ after # {}
            /\ \A t \in after :
                 /\ t.search_filter = Some(search_query)
                 /\ t.filtered_sample_data
                      = Some(filter_rows(sample_data, search_query))
                 /\ t.horizontal_offset = 0
                 /\ t.vertical_offset = 0
                 /\ t.tree_scroll_offset = 0
                 /\ t.data_vertical_scroll = 0
                 /\ ~t.search_mode
                 /\ ~is_some(t.row_detail_row)

\* search entry over an earlier filter that holds back rows the new buffer
\* matches, with the selection moved off the header
C8_Witness ==
    /\ Handling
    /\ InSearchEntry
    /\ is_some(filtered_sample_data)
    /\ filter_rows(filtered_sample_data.val, search_query)
         # filter_rows(sample_data, search_query)
    /\ vertical_offset > 0

\* What the cancel key does in Normal mode, as states to compare with.
filter_cleared ==
    [st EXCEPT !.search_filter = None, !.filtered_sample_data = None]
query_cleared ==
    [st EXCEPT !.sql_query = <<>>, !.sql_result = None]
offsets_reset ==
    [st EXCEPT !.horizontal_offset = 0, !.vertical_offset = 0,
               !.tree_scroll_offset = 0, !.data_vertical_scroll = 0]
filter_cleared_and_offsets_reset ==
    [filter_cleared EXCEPT !.horizontal_offset = 0, !.vertical_offset = 0,
                           !.tree_scroll_offset = 0, !.data_vertical_scroll = 0]

\* C9 as stated: in Normal mode Esc does exactly one of three things: with
\* a filter active it clears the filter and nothing else; else on the Query
\* view it clears query text and outcome and nothing else; else it resets
\* the four base offsets and nothing else.
C9_EscExactlyOne ==
    (Handling /\ InNormal) =>
        handle_key_event(st, Key("Esc"), NoAnswer) =
            {IF is_some(search_filter) THEN filter_cleared
             ELSE IF active_tab_to_string(st) = "SQL" THEN query_cleared
             ELSE offsets_reset}

\* C9: in Normal mode Esc, in priority order: with a filter active clears
\* the filter and resets the four base offsets, leaving query text and
\* outcome untouched even on the Query view; else on the Query view clears
\* query text and outcome only; else resets the four base offsets only.
C9_EscPriority ==
    (Handling /\ InNormal) =>
        handle_key_event(st, Key("Esc"), NoAnswer) =
            {IF is_some(search_filter) THEN filter_cleared_and_offsets_reset
             ELSE IF active_tab_to_string(st) = "SQL" THEN query_cleared
             ELSE offsets_reset}

\* Normal mode on the Query view with a filter active and a query text that
\* has been run
C9_Witness ==
    /\ Handling
    /\ InNormal
    /\ is_some(search_filter)
    /\ active_tab_to_string(st) = "SQL"
    /\ sql_query # <<>>
    /\ is_some(sql_result)

\* C10: while the row-detail overlay is open a key changes only the detail
\* state: Up/Down move detail_scroll_offset by 1, PageUp/PageDown by 10,
\* Left/Right move detail_scroll_horizontal by 1, decrements saturating at
\* 0, Esc clears the overlay; no key changes the base offsets, search
\* state, filter, query text, query outcome or active view.
C10_RowDetailFrame ==
    (Handling /\ InRowDetail) =>
        \A k \in AllKeys : \A e \in AnswersTo(k, EngineAnswers) :
            LET after == handle_key_event(st, k, e)
            IN  /\ after # {}
                /\ \A t \in after :
                     /\ t.horizontal_offset = horizontal_offset
                     /\ t.vertical_offset = vertical_offset
                     /\ t.tree_scroll_offset = tree_scroll_offset
                     /\ t.data_vertical_scroll = data_vertical_scroll
                     /\ t.search_mode = search_mode
                     /\ t.search_query = search_query
                     /\ t.search_filter = search_filter
                     /\ t.filtered_sample_data = filtered_sample_data
                     /\ t.sql_query = sql_query
                     /\ t.sql_result = sql_result
                     /\ t.active_tab = active_tab
                     /\ ~t.panicked
                     /\ t.exit = is_ctrl_x(k)
                     /\ t.row_detail_row =
                          IF k.code = "Esc" THEN None ELSE row_detail_row
                     /\ t.detail_scroll_offset =
                          CASE k.code = "Up" -> max(detail_scroll_offset - 1, 0)
                            [] k.code = "Down" -> detail_scroll_offset + 1
                            [] k.code = "PageUp" ->
                                 max(detail_scroll_offset - 10, 0)
                            [] k.code = "PageDown" -> detail_scroll_offset + 10
                            [] OTHER -> detail_scroll_offset
                     /\ t.detail_scroll_horizontal =
                          CASE k.code = "Left" ->
                                 max(detail_scroll_horizontal - 1, 0)
                            [] k.code = "Right" -> detail_scroll_horizontal + 1
                            [] OTHER -> detail_scroll_horizontal

\* the overlay is open over the Query view's result, scrolled down by a
\* page and to the right
C10_Witness ==
    /\ Handling
    /\ InRowDetail
    /\ active_tab_to_string(st) = "SQL"
    /\ detail_scroll_offset >= DETAIL_PAGE_SIZE
    /\ detail_scroll_horizontal > 0

\* C11: in SearchEntry every key other than Enter changes at most
\* search_query and search_mode: a character is appended to the buffer,
\* Backspace removes its last character, Esc returns to Normal with the
\* buffer emptied, every other key changes nothing; filter, filtered rows,
\* the four base offsets, query text, query outcome and active view are
\* unchanged.
C11_SearchEntryFrame ==
    (Handling /\ InSearchEntry) =>
        \A k \in AllKeys : k.code # "Enter" =>
            LET after == handle_key_event(st, k, NoAnswer)
            IN  /\ after # {}
                /\ \A t \in after :
                     /\ t.search_filter = search_filter
                     /\ t.filtered_sample_data = filtered_sample_data
                     /\ t.horizontal_offset = horizontal_offset
                     /\ t.vertical_offset = vertical_offset
                     /\ t.tree_scroll_offset = tree_scroll_offset
                     /\ t.data_vertical_scroll = data_vertical_scroll
                     /\ t.sql_query = sql_query
                     /\ t.sql_result = sql_result
                     /\ t.active_tab = active_tab
                     /\ t.row_detail_row = row_detail_row
                     /\ ~t.panicked
                     /\ t.search_mode = (k.code # "Esc")
                     /\ t.search_query =
                          CASE k.code = "Esc" -> <<>>
                            [] k.code = "Backspace" -> pop(search_query)
                            [] k.code = "Char" -> Append(search_query, k.ch)
                            [] OTHER -> search_query

\* search entry with a character typed, over an active filter and a moved
\* selection
C11_Witness ==
    /\ Handling
    /\ InSearchEntry
    /\ search_query # <<>>
    /\ is_some(search_filter)
    /\ vertical_offset > 0

\* C12: Tab and BackTab in Normal mode leave the four base offsets at 0 and
\* leave search_mode, search_query, search_filter, the filtered rows,
\* sql_query, sql_result and the row-detail state unchanged; the active tab
\* moves to the next / previous one of the list, cyclically.
C12_TabSwitch ==
    (Handling /\ InNormal) =>
        \A k \in {Key("Tab"), Key("BackTab")} :
            LET after == handle_key_event(st, k, NoAnswer)
            IN  /\ after # {}
                /\ \A t \in after :
                     /\ t.horizontal_offset = 0
                     /\ t.vertical_offset = 0
                     /\ t.tree_scroll_offset = 0
                     /\ t.data_vertical_scroll = 0
                     /\ t.search_mode = search_mode
                     /\ t.search_query = search_query
                     /\ t.search_filter = search_filter
                     /\ t.filtered_sample_data = filtered_sample_data
                     /\ t.sql_query = sql_query
                     /\ t.sql_result = sql_result
                     /\ t.row_detail_row = row_detail_row
                     /\ t.detail_scroll_offset = detail_scroll_offset
                     /\ t.detail_scroll_horizontal = detail_scroll_horizontal
                     /\ t.exit = exit
                     /\ t.active_tab =
                          IF k.code = "Tab"
                          THEN (IF active_tab = 5 THEN 1 ELSE active_tab + 1)
                          ELSE (IF active_tab = 1 THEN 5 ELSE active_tab - 1)

\* Normal mode on the row table with the selection and the scroll moved, a
\* filter active and a query text typed earlier
C12_Witness ==
    /\ Handling
    /\ InNormal
    /\ vertical_offset > 0
    /\ data_vertical_scroll > 0
    /\ is_some(search_filter)
    /\ sql_query # <<>>

sql_result_is_ok == is_some(sql_result) /\ sql_result.val.tag = "Ok"

\* C13: with the Query view active, row_detail_row.is_some() implies that
\* sql_result is Some(Ok(_)); and in Normal mode on the Query view with no
\* outcome or an Err outcome the row-detail key ('v' or 'V') leaves
\* row_detail_row unset.
C13_DetailOnlyOnSuccess ==
    /\ (active_tab_to_string(st) = "SQL" /\ is_some(row_detail_row))
       => sql_result_is_ok
    /\ (Handling /\ InNormal /\ active_tab_to_string(st) = "SQL"
        /\ ~sql_result_is_ok)
       => \A k \in AllKeys : (k.code = "Char" /\ k.ch \in {"v", "V"}) =>
             LET after == handle_key_event(st, k, NoAnswer)
             IN  /\ after # {}
                 /\ \A t \in after : ~is_some(t.row_detail_row)

\* the overlay is open on the Query view
C13_Witness ==
    /\ active_tab_to_string(st) = "SQL"
    /\ is_some(row_detail_row)
    /\ sql_result_is_ok

\* C14: the exit flag becomes true only as the effect of a Ctrl+X key
\* event: no other event sets it, whatever the engine answers, and
\* handling an event never faults.
C14_ExitOnlyOnQuit ==
    Handling =>
        \A k \in AllKeys \cup {NoKey} : \A e \in AnswersTo(k, EngineAnswers) :
            LET after == run_iteration(st, k, e)
            IN  /\ after # {}
                /\ \A t \in after :
                     /\ ~t.panicked
                     /\ t.exit => is_ctrl_x(k)

\* Normal mode on the Query view after a query that failed, with a filter
\* active
C14_Witness ==
    /\ Handling
    /\ InNormal
    /\ active_tab_to_string(st) = "SQL"
    /\ is_some(sql_result)
    /\ sql_result.val.tag = "Err"
    /\ is_some(search_filter)

\* C15: when the engine fails at the file scan, the execution or the
\* collection of a query, sql_result becomes Err of the engine's message,
\* verbatim, and nothing else changes: query text, filter, filtered rows,
\* base offsets and modal state are as before.
C15_FailureKept ==
    (/\ Handling
     /\ InNormal
     /\ active_tab_to_string(st) = "SQL"
     /\ trim(sql_query) # <<>>)
    => \A e \in EngineAnswers : e.stage \in {"scan", "execute", "collect"} =>
          handle_key_event(st, Key("Enter"), e)
            = {[st EXCEPT !.sql_result = Some(SqlErr(e.err))]}

\* Normal mode on the Query view with a query text typed, an earlier Ok
\* outcome and a filter active
C15_Witness ==
    /\ Handling
    /\ InNormal
    /\ active_tab_to_string(st) = "SQL"
    /\ trim(sql_query) # <<>>
    /\ sql_result_is_ok
    /\ is_some(search_filter)

(***************************************************************************)
(* SpecDetail: the row-detail overlay drawn over a result set.  Init draws *)
(* the view (Visualize or SQL), the overlay's row index, the filter and    *)
(* the query outcome; a step renders the overlay, call keeping what it     *)
(* shows.                                                                  *)
(***************************************************************************)
FilterTexts == TextsUpTo(Chars, 2)
Outcomes == {None, Some(SqlErr("Empty query"))}
            \cup {Some(SqlOk(dataframe_to_sample_data(d))) : d \in DataFrames}

InitDetail ==
    /\ horizontal_offset = 0
    /\ vertical_offset = 0
    /\ tree_scroll_offset = 0
    /\ data_vertical_scroll = 0
    /\ visible_data_rows = max(saturating_sub(terminal_size.height, HEADER_LINES), 1)
    /\ search_mode = FALSE
    /\ search_query = <<>>
    /\ \E f \in {None} \cup {Some(q) : q \in FilterTexts} :
          /\ search_filter = f
          /\ filtered_sample_data =
               IF is_some(f) THEN Some(filter_rows(sample_data, f.val)) ELSE None
    /\ sql_query = <<>>
    /\ sql_result \in Outcomes
    /\ row_detail_row \in {Some(i) : i \in 0..MaxDetailRow}
    /\ detail_scroll_offset = 0
    /\ detail_scroll_horizontal = 0
    /\ exit = FALSE
    /\ active_tab \in {4, 5}
    /\ panicked = FALSE
    /\ call = NoCall

RenderDetail ==
    /\ call = NoCall
    /\ LET shown == render_row_detail_view(st)
       IN  call' = [NoCall EXCEPT !.op = "render_row_detail_view",
                                  !.sel = row_detail_row.val,
                                  !.shown = shown]
    /\ UNCHANGED <<offsets, visible_data_rows, searchVars, filterVars, sqlVars,
                   detailVars, exit, active_tab, panicked>>

NextDetail == RenderDetail

SpecDetail == InitDetail /\ [][NextDetail]_vars

\* the result set the overlay's row index is resolved against
detail_data ==
    IF active_tab_to_string(st) = "Visualize"
    THEN (IF is_some(filtered_sample_data)
          THEN filtered_sample_data.val ELSE sample_data)
    ELSE sql_result.val.data

detail_has_data ==
    \/ active_tab_to_string(st) = "Visualize"
    \/ active_tab_to_string(st) = "SQL" /\ sql_result_is_ok

\* C16: resolving the overlay's row index against a result set (Browse:
\* the filtered or the base sample set; Query: the Ok result) with no row
\* at that index shows "Row out of range" and does not fault, for every
\* index and every size of the set including 0; with a row at that index
\* it shows that row.
C16_RowOutOfRange ==
    (call.op = "render_row_detail_view" /\ detail_has_data) =>
        /\ ~panicked
        /\ (call.sel >= detail_data.total_rows)
           => call.shown = Message("Row out of range")
        /\ (call.sel < detail_data.total_rows)
           => /\ call.shown.row_number = call.sel + 1
              /\ call.shown.lines =
                   row_detail_lines(detail_data.flattened_columns,
                                    detail_data.rows[call.sel + 1])

\* the overlay rendered over an empty result set
C16_Witness ==
    /\ call.op = "render_row_detail_view"
    /\ detail_has_data
    /\ detail_data.total_rows = 0
    /\ call.shown = Message("Row out of range")

(***************************************************************************)
(* SpecNormalize: dataframe_to_sample_data on drawn frames.  A step draws  *)
(* the frame the engine delivers (up to MaxFrameCols columns of            *)
(* MaxFrameHeight values, each null or an integer), normalizes it as       *)
(* run_sql does and stores the outcome in sql_result; call keeps the       *)
(* frame.                                                                  *)
(***************************************************************************)
FrameValues == {Null, Int32(7), Int32(12)}
FrameNames == <<"n", "m", "k">>
SeqsOf(S, n) == [1..n -> S]
FramesOf(nc, h) ==
    {[names |-> SubSeq(FrameNames, 1, nc), height |-> h, columns |-> cols] :
        cols \in SeqsOf(SeqsOf(FrameValues, h), nc)}
FramesUpTo(maxc, maxh) ==
    UNION {FramesOf(nc, IF nc = 0 THEN 0 ELSE h) : nc \in 0..maxc, h \in 0..maxh}

WellFormed(df) ==
    /\ Len(df.columns) = Len(df.names)
    /\ \A c \in 1..Len(df.columns) : Len(df.columns[c]) = df.height

Normalize ==
    /\ call = NoCall
    /\ \E df \in FramesUpTo(MaxFrameCols, MaxFrameHeight) :
         /\ WellFormed(df)
         /\ sql_result' = Some(SqlOk(dataframe_to_sample_data(df)))
         /\ call' = [NoCall EXCEPT !.op = "dataframe_to_sample_data", !.df = df]
    /\ UNCHANGED <<offsets, visible_data_rows, searchVars, filterVars, sql_query,
                   detailVars, exit, active_tab, panicked>>

NextNormalize == Normalize

SpecNormalize == Init /\ [][NextNormalize]_vars

\* C17: normalizing the engine's frame keeps the column names in their
\* order and the rows in their order, renders every null cell as "NULL"
\* and every other cell in its display form, and gives total_rows =
\* rows.length = the frame's height, total_columns = the number of
\* columns, every row of length total_columns.
C17_Normalized ==
    call.op = "dataframe_to_sample_data" =>
        LET df == call.df
            out == sql_result.val.data
        IN  /\ sql_result.val.tag = "Ok"
            /\ out.flattened_columns = df.names
            /\ out.total_columns = Len(df.names)
            /\ out.total_rows = df.height
            /\ Len(out.rows) = df.height
            /\ \A r \in 1..df.height :
                 /\ Len(out.rows[r]) = out.total_columns
                 /\ \A c \in 1..Len(df.names) :
                      out.rows[r][c] =
                        IF df.columns[c][r].null
                        THEN <<"N", "U", "L", "L">>
                        ELSE format_int(df.columns[c][r].int)

\* a frame of two columns and two rows with a null in the first row and a
\* value under it has been normalized
C17_Witness ==
    /\ call.op = "dataframe_to_sample_data"
    /\ Len(call.df.names) = 2
    /\ call.df.height = 2
    /\ call.df.columns[1][1].null
    /\ ~call.df.columns[1][2].null
    /\ sql_result.val.data.rows[2][1] = <<"1", "2">>

\* C18: clear_search_filter applied twice gives the state it gives applied
\* once, and after it search_filter and filtered_sample_data are None and
\* every other field is as before.
C18_ClearIdempotent ==
    /\ clear_search_filter(clear_search_filter(st)) = clear_search_filter(st)
    /\ clear_search_filter(st) = filter_cleared

\* a filter is active, its text is still in the search buffer, and the
\* selection is moved
C18_Witness ==
    /\ is_some(search_filter)
    /\ is_some(filtered_sample_data)
    /\ search_query # <<>>
    /\ vertical_offset > 0

(***************************************************************************)
(* SpecSample: page_down applied again and again from AppState::new, with  *)
(* (visible_rows, max_rows) drawn from the small windows and totals or     *)
(* being a page of SamplePage rows over a sample of SampleRows rows.       *)
(* call.run counts the page_down calls with these arguments made in a row  *)
(* since selection and scroll were both 0, as long as run * visible_rows   *)
(* is at most max_rows - 1 (0: not such a run).                            *)
(***************************************************************************)
PageArgs == ((0..MaxPageWin) \X (0..MaxPageTot)) \cup {<<SamplePage, SampleRows>>}

RunOf(visible, total) ==
    IF vertical_offset = 0 /\ data_vertical_scroll = 0 THEN 1
    ELSE IF /\ call.op = "page_down"
            /\ call.run >= 1
            /\ call.visible = visible
            /\ call.total = total
            /\ (call.run + 1) * visible <= total - 1
         THEN call.run + 1
         ELSE 0

PageDownAgain ==
    /\ ~panicked
    /\ \E a \in PageArgs :
         \E t \in page_down(st, a[1], a[2]) :
            /\ Install(t)
            /\ call' = [NoCall EXCEPT !.op = "page_down",
                                      !.visible = a[1],
                                      !.total = a[2],
                                      !.has_sel = TRUE,
                                      !.sel = vertical_offset,
                                      !.scroll = data_vertical_scroll,
                                      !.run = RunOf(a[1], a[2])]

NextSample == PageDownAgain

SpecSample == Init /\ [][NextSample]_vars

\* C19 as stated: page_down(visible, max) sets vertical_offset to
\* min(old + visible, max - 1) and synchronizes the data scroll; from
\* selection 0 and scroll 0, k successive page_down(p, m) with
\* k*p <= m - 1 give vertical_offset = k*p and data scroll = k*p - p + 1.
C19_PageDownAsStated ==
    call.op = "page_down" =>
        /\ ~panicked
        /\ vertical_offset = min(call.sel + call.visible, call.total - 1)
        /\ (call.run >= 1 /\ call.run * call.visible <= call.total - 1)
           => /\ vertical_offset = call.run * call.visible
              /\ data_vertical_scroll
                   = call.run * call.visible - call.visible + 1

\* C19: page_down(visible, max) sets vertical_offset to
\* min(old + visible, max(max - 1, 0)) and, with visible >= 1, synchronizes
\* the data scroll without a fault; from selection 0 and scroll 0, k >= 1
\* successive page_down(p, m) with p >= 1 and k*p <= m - 1 give
\* vertical_offset = k*p and data scroll = k*p - p + 1.
C19_PageDown ==
    call.op = "page_down" =>
        /\ vertical_offset = min(call.sel + call.visible, max(call.total - 1, 0))
        /\ call.visible >= 1 => ~panicked
        /\ (/\ call.run >= 1
            /\ call.visible >= 1
            /\ call.run * call.visible <= call.total - 1)
           => /\ vertical_offset = call.run * call.visible
              /\ data_vertical_scroll
                   = call.run * call.visible - call.visible + 1

\* the sample of 100 rows, 10 visible, paged down 5 times from 0:
\* vertical_offset 50, scroll 41
C19_Witness ==
    /\ call.op = "page_down"
    /\ call.visible = 10
    /\ call.total = 100
    /\ call.run = 5
    /\ vertical_offset = 50
    /\ data_vertical_scroll = 41

selection_visible ==
    /\ data_vertical_scroll <= vertical_offset
    /\ vertical_offset < data_vertical_scroll + call.visible

\* C20 as stated: after page_up(visible, max) or page_down(visible, max)
\* with visible > 0, in any state reachable by up/down/page operations,
\* data_vertical_scroll <= vertical_offset < data_vertical_scroll + visible.
C20_SelectionVisibleAsStated ==
    (call.op \in {"page_up", "page_down"} /\ call.visible > 0)
    => selection_visible

\* C20: with visible > 0, after page_down(visible, max) the selection is
\* visible; after page_up(visible, max) it is visible exactly when the
\* selection page_up leaves is below max or below visible (page_up does not
\* clamp the selection to max - 1, and the scroll is clamped to
\* max - visible).  Neither faults.
C20_SelectionVisible ==
    (call.op \in {"page_up", "page_down"} /\ call.visible > 0)
    => /\ ~panicked
       /\ call.op = "page_down" => selection_visible
       /\ call.op = "page_up" =>
            (selection_visible
               <=> vertical_offset < max(call.total, call.visible))

\* page_up from a selection below max, moving the window up
C20_Witness ==
    /\ call.op = "page_up"
    /\ call.visible > 0
    /\ call.sel < call.total
    /\ call.scroll > vertical_offset
    /\ selection_visible


\* C21 as stated: after any synchronization with (visible_rows, total_rows)
\* the window [data_vertical_scroll, data_vertical_scroll + visible_rows) lies
\* inside [0, total_rows), i.e. data_vertical_scroll + visible_rows <=
\* total_rows, for every total_rows, totals below visible_rows and 0 included.
C21_WindowInsideAsStated ==
    call.op = "adjust_scroll_to_selection" =>
        /\ ~panicked
        /\ data_vertical_scroll + call.visible <= call.total

\* C21: a synchronization with (visible_rows, total_rows) faults only for
\* visible_rows = 0; when it returns, data_vertical_scroll is at most
\* max(0, total_rows - visible_rows): the window lies inside [0, total_rows)
\* when total_rows >= visible_rows, and starts at 0 and reaches past the last
\* row when total_rows < visible_rows.
C21_WindowInside ==
    call.op = "adjust_scroll_to_selection" =>
        /\ panicked => call.visible = 0
        /\ ~panicked =>
             /\ data_vertical_scroll <= max(0, call.total - call.visible)
             /\ call.total >= call.visible =>
                    data_vertical_scroll + call.visible <= call.total
             /\ call.total < call.visible =>
                    /\ data_vertical_scroll = 0
                    /\ data_vertical_scroll + call.visible > call.total

\* the clamp has acted: the selection asked for a scroll past
\* total_rows - visible_rows and the window ends on the last row.
C21_Witness ==
    /\ call.op = "adjust_scroll_to_selection"
    /\ ~panicked
    /\ call.visible >= 1
    /\ call.total > call.visible
    /\ call.sel - (call.visible - 1) > call.total - call.visible
    /\ call.sel >= call.scroll + call.visible
    /\ data_vertical_scroll + call.visible = call.total

\* C22: for every selection, current scroll, visible size and total, the
\* scroll calculate_scroll_to_show_item computes for the column tree equals
\* the scroll adjust_scroll_to_selection computes for the row table, the
\* clamp to [0, max(0, total - visible)] included.
C22_TreeAsRowTable ==
    (call.op = "calculate_scroll_to_show_item" /\ call.has_sel /\ ~panicked) =>
        \A total \in 0..MaxTotal :
            LET rows == [st EXCEPT !.vertical_offset = call.sel,
                                   !.data_vertical_scroll = call.scroll]
            IN  \A t \in adjust_scroll_to_selection(rows, call.visible, total) :
                    ~t.panicked => t.data_vertical_scroll = call.result

\* C23: whenever a frame is rendered (every iteration of App::run draws one
\* from the state it starts with), vertical_offset does not exceed the total
\* of the result set on display, whatever down, page and filter operations
\* came before.
C23_SelectionClampedAtRender ==
    (Handling /\ detail_has_data) => vertical_offset <= detail_data.total_rows

\* C24: on the Query view in Normal mode every printable character key
\* appends exactly that character to sql_query ('v', 'V' and '/' included),
\* Backspace removes the last character, and Enter stores the outcome of
\* run_sql in sql_result and leaves sql_query as it is.
C24_QueryFreeText ==
    (Handling /\ InNormal /\ active_tab_to_string(st) = "SQL") =>
        \A k \in AllKeys : \A e \in AnswersTo(k, EngineAnswers) :
            \A t \in handle_key_event(st, k, e) :
                /\ (k.code = "Char" /\ ~k.ctrl) =>
                       t.sql_query = Append(sql_query, k.ch)
                /\ k.code = "Backspace" => t.sql_query = pop(sql_query)
                /\ k.code = "Enter" =>
                       /\ t.sql_query = sql_query
                       /\ t.sql_result = Some(run_sql(file_path, sql_query, e).result)

\* C25: with a visible window of 0, calculate_scroll_to_show_item and
\* adjust_scroll_to_selection return a scroll offset for every selection and
\* current scroll: neither faults on 'visible - 1', and the row table's
\* scroll is at most total_rows.
C25_ZeroWindowNoFault ==
    (call.op \in {"adjust_scroll_to_selection", "calculate_scroll_to_show_item"}
     /\ call.visible = 0) =>
        /\ ~panicked
        /\ call.op = "adjust_scroll_to_selection" => call.result <= call.total

\* C26: while the Query view is the active view, vertical_offset,
\* horizontal_offset and data_vertical_scroll are 0 in every reachable state,
\* so a row-detail overlay open on the Query view has row_detail_row =
\* Some(0).
C26_QueryViewAtOrigin ==
    active_tab_to_string(st) = "SQL" =>
        /\ vertical_offset = 0
        /\ horizontal_offset = 0
        /\ data_vertical_scroll = 0
        /\ is_some(row_detail_row) => row_detail_row = Some(0)

\* the overlay is open on the Query view over a result with rows, after
\* navigation keys were pressed in it.
C26_Witness ==
    /\ active_tab_to_string(st) = "SQL"
    /\ is_some(row_detail_row)
    /\ sql_result_is_ok
    /\ sql_result.val.data.total_rows > 1
    /\ detail_scroll_offset > 0

\* C27 as stated: in every state reachable by down, up and page operations
\* and for every (visible, max), vertical_offset after page_down(visible, max)
\* is at least vertical_offset before it.
C27_PageDownForwardAsStated ==
    call.op = "page_down" => vertical_offset >= call.sel

\* C27: page_down(visible, max) leaves vertical_offset at least where it was
\* when the selection it starts from is at most max(max - 1, 0); from a
\* selection past that (down has no upper clamp) it moves the selection back
\* to max(max - 1, 0).  This holds also when the synchronization that follows
\* faults, which happens only for visible = 0.
C27_PageDownForward ==
    call.op = "page_down" =>
        /\ call.sel <= max(call.total - 1, 0) => vertical_offset >= call.sel
        /\ call.sel > max(call.total - 1, 0) =>
               /\ vertical_offset = max(call.total - 1, 0)
               /\ vertical_offset < call.sel
        /\ panicked => call.visible = 0

\* page_down from a selection inside the rows has moved the selection
\* forward, up to the last row
C27_Witness ==
    /\ call.op = "page_down"
    /\ ~panicked
    /\ call.sel > 0
    /\ call.sel < call.total - 1
    /\ vertical_offset > call.sel
    /\ vertical_offset = call.total - 1

(***************************************************************************)
(* The states App::handle_key_event leaves after n Esc key events in a row *)
(* starting from s.                                                        *)
(***************************************************************************)
RECURSIVE EscTimes(_, _)
EscTimes(s, n) ==
    IF n = 0 THEN {s}
    ELSE UNION {handle_key_event(t, Key("Esc"), NoAnswer) : t \in EscTimes(s, n - 1)}

dismissed(t) ==
    /\ ~t.exit
    /\ ~t.search_mode
    /\ ~is_some(t.row_detail_row)
    /\ ~is_some(t.search_filter)
    /\ ~is_some(t.filtered_sample_data)
    /\ t.horizontal_offset = 0
    /\ t.vertical_offset = 0
    /\ t.tree_scroll_offset = 0
    /\ t.data_vertical_scroll = 0

\* C28: from every reachable state with exit = false, some number n <= 3 of
\* Esc key events leads to Normal mode (search_mode false, row_detail_row
\* None) with no active filter and the four base offsets 0; the state stays
\* so under further Esc keys, and three Esc keys always arrive there.
C28_EscDismisses ==
    Handling =>
        /\ \E n \in 0..3 :
              /\ EscTimes(st, n) # {}
              /\ \A t \in EscTimes(st, n) : dismissed(t)
        /\ \A t \in EscTimes(st, 3) : dismissed(t)
        /\ dismissed(st) => \A t \in EscTimes(st, 1) : dismissed(t)

\* the row-detail overlay is open over a filtered result with a row below
\* the first selected: one Esc does not suffice
C28_Witness ==
    /\ Handling
    /\ is_some(row_detail_row)
    /\ is_some(search_filter)
    /\ vertical_offset > 0
    /\ \E t \in EscTimes(st, 1) : ~dismissed(t)
    /\ \A t \in EscTimes(st, 2) : dismissed(t)
=============================================================================
